---- MODULE Spec2Model ----
(***************************************************************************)
(* The ADS-B ingestion pipeline of app.py: main() connects to the feed,    *)
(* creates the shared ADSBPacket and starts decoder_daemon, which frames   *)
(* the byte stream ('*' + 29 bytes ending in ';'), filters by downlink     *)
(* format, checks the CRC and writes the decoded fields into the packet,   *)
(* one field per statement.  The publisher reads that packet concurrently. *)
(*                                                                         *)
(* Bytes are their ASCII codes.  Text is a sequence of bytes.              *)
(***************************************************************************)
EXTENDS Integers, Sequences, FiniteSets, TLC

VARIABLES
    mainpc,        \* main(): "connect" | "exit_fail" | "serving"
    sockOpen,      \* the socket object has not been closed
    closeCalls,    \* number of sock.close() calls made so far
    attempts,      \* number of sock.connect() calls made so far
    connErr,       \* main()'s err, the flag connect_tcpserver returned
    packetMade,    \* main() has created the ADSBPacket
    stream,        \* every byte the feed delivers on this connection
    pos,           \* number of bytes of stream the daemon has consumed
    pc,            \* decoder_daemon's position (a label per statement)
    data_recv,     \* decoder_daemon's local data_recv
    msg,           \* decoder_daemon's local msg
    df,            \* decoder_daemon's local df
    decoder_msg,   \* the message held by the ADSBDecoder (set_msg)
    packet,        \* the shared ADSBPacket
    clock,         \* the wall clock, in whole milliseconds, when last read
    yielded,       \* history: the RawMessages handed to the format filter
    shortReads,    \* history: recv calls that returned less than was there
    rpc,           \* the publisher's reader: number of fields read so far
    snap,          \* the publisher's reader: the fields it has read
    updates,       \* history: per completed update, its message and the packet
    validated,     \* history: the downlink formats msg_crc was called for
    atClose        \* history: the daemon and the packet at the first close

vars == <<mainpc, sockOpen, closeCalls, attempts, connErr, packetMade,
          stream, pos, pc, data_recv, msg, df,
          decoder_msg, packet, clock, yielded, shortReads,
          rpc, snap, updates, validated, atClose>>

---------------------------------------------------------------------------
(* Bounds of the model. *)

\* Segments an input stream is made of.
MaxSegs == 2
\* recv calls per run that return fewer bytes than are available.
MaxShort == 1
\* Most bytes such a short recv returns.
MaxShortLen == 2
\* Largest wall-clock reading.
MaxClock == 1
\* Shutdown events delivered to the server.
MaxShutdown == 2

---------------------------------------------------------------------------
(* Program constants. *)

\* b"*", the start sentinel (ord('*')).
STAR == 42
\* b";", the terminator (ord(';')).
SEMI == 59
\* sock.recv(29)
RecvLen == 29

Min(a, b) == IF a < b THEN a ELSE b

---------------------------------------------------------------------------
(* Text helpers. *)

\* The value of a hexadecimal digit character, -1 for any other byte.
HexVal(c) ==
    IF c \in 48..57 THEN c - 48
    ELSE IF c \in 65..70 THEN c - 55
    ELSE IF c \in 97..102 THEN c - 87
    ELSE -1

IsHexDigit(c) == HexVal(c) >= 0

\* The upper-case hexadecimal digit of v \in 0..15.
HexChar(v) == IF v < 10 THEN 48 + v ELSE 55 + v

\* Whitespace that int() strips.
IsSpace(c) == c \in 9..13 \/ c \in 28..32

\* data_recv[-1:] and data_recv[:-1]
LastSlice(b) == IF Len(b) = 0 THEN <<>> ELSE <<b[Len(b)]>>

ButLast(b) == IF Len(b) = 0 THEN <<>> ELSE SubSeq(b, 1, Len(b) - 1)

\* msg[:2]
Head2(s) == SubSeq(s, 1, Min(2, Len(s)))

\* bytes.decode("utf-8") succeeds.  The streams of the model hold ASCII bytes
\* and the byte 255, which no UTF-8 text contains.
Utf8Ok(b) == \A i \in 1..Len(b) : b[i] < 128

\* int(s, 16) for a text of at most two characters: [ok, val], ok = FALSE
\* standing for ValueError.  int() strips whitespace and takes a sign.
ParseInt16(s) ==
    IF Len(s) = 1 /\ IsHexDigit(s[1])
        THEN [ok |-> TRUE, val |-> HexVal(s[1])]
    ELSE IF Len(s) = 2 /\ IsHexDigit(s[1]) /\ IsHexDigit(s[2])
        THEN [ok |-> TRUE, val |-> 16 * HexVal(s[1]) + HexVal(s[2])]
    ELSE IF Len(s) = 2 /\ IsSpace(s[1]) /\ IsHexDigit(s[2])
        THEN [ok |-> TRUE, val |-> HexVal(s[2])]
    ELSE IF Len(s) = 2 /\ IsHexDigit(s[1]) /\ IsSpace(s[2])
        THEN [ok |-> TRUE, val |-> HexVal(s[1])]
    ELSE IF Len(s) = 2 /\ s[1] = 43 /\ IsHexDigit(s[2])
        THEN [ok |-> TRUE, val |-> HexVal(s[2])]
    ELSE IF Len(s) = 2 /\ s[1] = 45 /\ IsHexDigit(s[2])
        THEN [ok |-> TRUE, val |-> 0 - HexVal(s[2])]
    ELSE [ok |-> FALSE, val |-> 0]

\* The header shifted by four bits instead of three.
DownlinkFormatShiftedBy4(m) == ParseInt16(Head2(m)).val \div 16

\* int(msg[:2], 16) >> 3
DownlinkFormat(m) == ParseInt16(Head2(m)).val \div 8

\* df == 17 or df == 20 or df == 21
Decodable(d) == d = 17 \/ d = 20 \/ d = 21

---------------------------------------------------------------------------
(* The external capabilities of controller.decoder and model.packet, which *)
(* app.py imports: stand-ins that are deterministic functions of the text. *)

RECURSIVE SumHex(_)
SumHex(s) == IF Len(s) = 0 THEN 0 ELSE HexVal(s[1]) + SumHex(Tail(s))

AllHex(s) == \A i \in 1..Len(s) : IsHexDigit(s[i])

\* msg_crc(msg)[1], the error flag: the text is consistent when it is 28
\* hexadecimal digits of which the last is the sum of the others modulo 16.
msg_crc(m) ==
    ~ ( /\ Len(m) = 28
        /\ AllHex(m)
        /\ HexVal(m[28]) = SumHex(SubSeq(m, 1, 27)) % 16 )

\* What a getter returns beside an error flag.
NoValue == <<>>

\* decoder.get_icao(): <<value, err>>; the address is characters 3..8.
get_icao(m) ==
    IF Len(m) >= 8 /\ AllHex(SubSeq(m, 3, 8))
        THEN <<SubSeq(m, 3, 8), FALSE>>
        ELSE <<NoValue, TRUE>>

\* decoder.get_callsign(): <<value, err>>; character 9 carries the callsign,
\* '0' when the message has none.
get_callsign(m) ==
    IF Len(m) >= 9 /\ HexVal(m[9]) > 0
        THEN <<SubSeq(m, 9, 9), FALSE>>
        ELSE <<NoValue, TRUE>>

\* decoder.get_altitude(): <<value, err>>; character 10 carries the altitude,
\* '0' when the message has none.
get_altitude(m) ==
    IF Len(m) >= 10 /\ HexVal(m[10]) > 0
        THEN <<SubSeq(m, 10, 10), FALSE>>
        ELSE <<NoValue, TRUE>>

\* ADSBPacket(): every field empty or zero.
EmptyPacket ==
    [message |-> <<>>, icao |-> NoValue, callsign |-> NoValue,
     altitude |-> NoValue, timestamp |-> 0]

---------------------------------------------------------------------------
(* Input streams: up to MaxSegs segments, each a frame or stray bytes. *)

\* The first 27 characters of a payload: header h1 h2, address digit i six
\* times, callsign digit c, altitude digit a, then zeros.
Body(h1, h2, i, c, a) ==
    <<h1, h2, i, i, i, i, i, i, c, a>> \o [k \in 1..17 |-> 48]

\* '*' + 28 characters + ';', the last character a right or wrong check digit.
Frame(h1, h2, i, c, a, good) ==
    LET b == Body(h1, h2, i, c, a)
        s == SumHex(b) + (IF good THEN 0 ELSE 1)
    IN  <<STAR>> \o b \o <<HexChar(s % 16)>> \o <<SEMI>>

\* b with its last byte replaced by x.
WithLast(b, x) == ButLast(b) \o <<x>>

\* b with byte k replaced by x.
WithByte(b, k, x) == [b EXCEPT ![k] = x]

\* A format-17 frame (8D...) whose three fields decode.
FrameFull == Frame(56, 68, 49, 50, 51, TRUE)

\* A format-17 frame (8D...) that carries no callsign.
FrameNoCallsign == Frame(56, 68, 52, 48, 53, TRUE)

Segments ==
    { FrameFull,
      FrameNoCallsign,
      Frame(56, 68, 54, 55, 56, FALSE),     \* 8D..., format 17, wrong CRC
      Frame(65, 48, 49, 50, 51, TRUE),      \* A0..., format 20
      Frame(65, 56, 49, 50, 51, TRUE),      \* A8..., format 21
      Frame(53, 68, 49, 50, 51, TRUE),      \* 5D..., format 11
      WithLast(Frame(56, 68, 49, 50, 51, TRUE), 44),   \* ends in ','
      Frame(71, 49, 49, 50, 51, TRUE),      \* G1..., no hexadecimal header
      WithByte(Frame(56, 68, 49, 50, 51, TRUE), 12, 255),  \* not UTF-8
      <<STAR>>,                             \* a stray start sentinel
      <<SEMI>> }                            \* a stray terminator

\* The streams of at most n segments of G.
RECURSIVE StreamsOf(_, _)
StreamsOf(G, n) ==
    IF n = 0 THEN { <<>> }
    ELSE LET shorter == StreamsOf(G, n - 1)
         IN  shorter \cup { s \o g : s \in shorter, g \in G }

Streams == StreamsOf(Segments, MaxSegs)

\* A feed that delivers accepted frames only.
CleanStreams == StreamsOf({FrameFull, FrameNoCallsign}, MaxSegs)

\* The payloads of the well-formed frames of s ('*', 28 hexadecimal
\* characters, ';'), in stream order.
RECURSIVE FramesFrom(_, _)
FramesFrom(s, p) ==
    IF p + 29 > Len(s) THEN <<>>
    ELSE IF /\ s[p] = STAR
            /\ AllHex(SubSeq(s, p + 1, p + 28))
            /\ s[p + 29] = SEMI
        THEN <<SubSeq(s, p + 1, p + 28)>> \o FramesFrom(s, p + 30)
        ELSE FramesFrom(s, p + 1)

FramesOf(s) == FramesFrom(s, 1)

---------------------------------------------------------------------------
(* State after construction: main() is about to connect. *)

\* atClose before any close.
NotClosed ==
    [pos |-> 0, pc |-> "unstarted", data_recv |-> <<>>, updates |-> 0,
     packet |-> EmptyPacket]

InitOver(S) ==
    /\ mainpc = "connect"
    /\ sockOpen = TRUE
    /\ closeCalls = 0
    /\ attempts = 0
    /\ connErr = FALSE
    /\ packetMade = FALSE
    /\ stream \in S
    /\ pos = 0
    /\ pc = "unstarted"
    /\ data_recv = <<>>
    /\ msg = <<>>
    /\ df = 0
    /\ decoder_msg = <<>>
    /\ packet = EmptyPacket
    /\ clock = 0
    /\ yielded = <<>>
    /\ shortReads = 0
    /\ rpc = 0
    /\ snap = EmptyPacket
    /\ updates = <<>>
    /\ validated = {}
    /\ atClose = NotClosed

Init == InitOver(Streams)

InitReader == InitOver(CleanStreams)

mainVars == <<mainpc, sockOpen, closeCalls, attempts, connErr, packetMade>>
readerVars == <<rpc, snap>>
localVars == <<data_recv, msg, df>>
histVars == <<yielded, shortReads, updates, validated, atClose>>

---------------------------------------------------------------------------
(* main() and graceful_shutdown(). *)

\* The failure test left out: main goes on whatever connect_tcpserver says.
StartupFailsNever(err) == FALSE

\* if err: ... exit(1)
StartupFails(err) == err

\* connect_tcpserver() makes its one sock.connect() call and returns
\* (sock, err); main exits on err, otherwise creates the packet and the
\* decoder and starts decoder_daemon.
Connect(err) ==
    /\ mainpc = "connect"
    /\ attempts' = attempts + 1
    /\ connErr' = err
    /\ IF StartupFails(err)
         THEN /\ mainpc' = "exit_fail"
              /\ UNCHANGED <<pc, packet, packetMade>>
         ELSE /\ mainpc' = "serving"
              /\ packetMade' = TRUE
              /\ packet' = EmptyPacket
              /\ pc' = "find"
    /\ UNCHANGED <<sockOpen, closeCalls, stream, pos, localVars, decoder_msg,
                   clock, histVars, readerVars>>

\* connect_tcpserver() returns (sock, False).
ConnectOk == Connect(FALSE)

\* connect_tcpserver() returns (sock, True): main logs and calls exit(1).
ConnectFail == Connect(TRUE)

\* The close left out.
CloseSkipped(open) == open

\* sock.close(): the socket is open no more, whether it was or not.
Close(open) == FALSE

\* The server's "shutdown" event runs graceful_shutdown: sock.close().
Shutdown ==
    /\ mainpc = "serving"
    /\ closeCalls < MaxShutdown
    /\ sockOpen' = Close(sockOpen)
    /\ closeCalls' = closeCalls + 1
    /\ atClose' = IF closeCalls = 0
                    THEN [pos |-> pos, pc |-> pc, data_recv |-> data_recv,
                          updates |-> Len(updates), packet |-> packet]
                    ELSE atClose
    /\ UNCHANGED <<mainpc, attempts, connErr, packetMade, stream, pos, pc,
                   localVars, decoder_msg, packet, clock, yielded, shortReads,
                   updates, validated, readerVars>>

---------------------------------------------------------------------------
(* decoder_daemon(): the decisions and assignments of its loop body. *)

\* The terminator test inverted.
TerminatedInverted(b) == LastSlice(b) # <<SEMI>>

\* data_recv[-1:] == b";" (the loop continues when this is false)
Terminated(b) == LastSlice(b) = <<SEMI>>

\* The checksum test applied to the formats other than 17.
CrcRejectsOthers(err, d) == err /\ d # 17

\* if err and df == 17: continue
CrcRejects(err, d) == err /\ d = 17

\* The format-17 gate left out.
AdvancesAnyFormat(d) == TRUE

\* if df != 17: continue
Advances(d) == d = 17

\* The timestamp written first, before the fields.
AfterStampFirst(l) ==
    CASE l = "set_msg" -> "w_timestamp"
      [] l = "w_timestamp" -> "w_message"
      [] l = "w_message" -> "w_icao"
      [] l = "w_icao" -> "w_callsign"
      [] l = "w_callsign" -> "w_altitude"
      [] l = "w_altitude" -> "find"

\* The statement that follows statement l in lines 66..72.
After(l) ==
    CASE l = "set_msg" -> "w_message"
      [] l = "w_message" -> "w_icao"
      [] l = "w_icao" -> "w_callsign"
      [] l = "w_callsign" -> "w_altitude"
      [] l = "w_altitude" -> "w_timestamp"
      [] l = "w_timestamp" -> "find"

\* packet.message = msg
StoreMessage(p, m) == [p EXCEPT !.message = m]

\* The address taken from the callsign getter.
StoreIcaoFromCallsign(p, m) == [p EXCEPT !.icao = get_callsign(m)[1]]

\* packet.icao, _ = decoder.get_icao()
StoreIcao(p, m) == [p EXCEPT !.icao = get_icao(m)[1]]

\* The callsign stored only when the getter reports no error.
StoreCallsignIfDecoded(p, m) ==
    IF get_callsign(m)[2] THEN p ELSE [p EXCEPT !.callsign = get_callsign(m)[1]]

\* packet.callsign, _ = decoder.get_callsign()
StoreCallsign(p, m) == [p EXCEPT !.callsign = get_callsign(m)[1]]

\* The altitude appended to the stored one.
StoreAltitudeAppending(p, m) ==
    [p EXCEPT !.altitude = p.altitude \o get_altitude(m)[1]]

\* packet.altitude, _ = decoder.get_altitude()
StoreAltitude(p, m) == [p EXCEPT !.altitude = get_altitude(m)[1]]

\* packet.timestamp = int(datetime.now().timestamp() * 1000)
Stamp(p, now) == [p EXCEPT !.timestamp = now]

\* Labels of the statements between decoder.set_msg and the timestamp.
UpdateLabels ==
    {"set_msg", "w_message", "w_icao", "w_callsign", "w_altitude",
     "w_timestamp"}

\* The scan's error ignored: the payload is read whatever socket_find says.
AfterScanIgnoringError(err) == "recv"

\* if err: continue
AfterScan(err) == IF err THEN "find" ELSE "recv"

\* Index of the first start sentinel after the consumed bytes, 0 if none.
NextStar ==
    IF \E i \in (pos + 1)..Len(stream) : stream[i] = STAR
        THEN CHOOSE i \in (pos + 1)..Len(stream) :
                /\ stream[i] = STAR
                /\ \A j \in (pos + 1)..(i - 1) : stream[j] # STAR
        ELSE 0

---------------------------------------------------------------------------
(* decoder_daemon(): one action per statement of the loop. *)

\* socket_find(sock, b"*") finds the sentinel: everything up to it is consumed.
Find ==
    /\ pc = "find"
    /\ sockOpen
    /\ NextStar # 0
    /\ pos' = NextStar
    /\ pc' = AfterScan(FALSE)
    /\ UNCHANGED <<mainVars, stream, localVars, decoder_msg, packet,
                   clock, histVars, readerVars>>

\* socket_find reports an error (a closed socket, no byte in time, a
\* transient failure).  Bytes that hold no sentinel are consumed.
FindErr ==
    /\ pc = "find"
    /\ pos' = IF sockOpen /\ NextStar = 0 THEN Len(stream) ELSE pos
    /\ pc' = "retry"
    /\ UNCHANGED <<mainVars, stream, localVars, decoder_msg, packet,
                   clock, histVars, readerVars>>

\* Lines 47..48 after an error: continue, back to the head of the loop.
ScanRetry ==
    /\ pc = "retry"
    /\ pc' = AfterScan(TRUE)
    /\ UNCHANGED <<mainVars, stream, pos, localVars, decoder_msg, packet,
                   clock, histVars, readerVars>>

\* sock.recv(29) returns the bytes that follow, at most 29, or fewer of them
\* than there are (a short read).
RecvBytes ==
    /\ pc = "recv"
    /\ sockOpen
    /\ pos < Len(stream)
    /\ LET avail == Min(RecvLen, Len(stream) - pos)
       IN  \E k \in 1..avail :
              /\ k = avail \/ (shortReads < MaxShort /\ k <= MaxShortLen)
              /\ data_recv' = SubSeq(stream, pos + 1, pos + k)
              /\ pos' = pos + k
              /\ shortReads' = IF k < avail THEN shortReads + 1 ELSE shortReads
    /\ pc' = "frame"
    /\ UNCHANGED <<mainVars, stream, msg, df, decoder_msg, packet, clock,
                   yielded, updates, validated, atClose, readerVars>>

\* sock.recv(29) returns b"": the feed has closed its end.
RecvEof ==
    /\ pc = "recv"
    /\ sockOpen
    /\ pos = Len(stream)
    /\ data_recv' = <<>>
    /\ pc' = "frame"
    /\ UNCHANGED <<mainVars, stream, pos, msg, df, decoder_msg, packet,
                   clock, histVars, readerVars>>

\* sock.recv(29) raises: the socket was closed (OSError), or no byte came
\* within the timeout that connect_tcpserver set.  Nothing catches it.
RecvRaise ==
    /\ pc = "recv"
    /\ ~sockOpen \/ pos = Len(stream)
    /\ pc' = "dead"
    /\ UNCHANGED <<mainVars, stream, pos, localVars, decoder_msg, packet,
                   clock, histVars, readerVars>>

\* Lines 51..53: the terminator check and the decoding of the payload.
FrameCheck ==
    /\ pc = "frame"
    /\ IF ~Terminated(data_recv)
         THEN pc' = "find" /\ UNCHANGED <<msg, yielded>>
       ELSE IF ~Utf8Ok(ButLast(data_recv))
         THEN pc' = "dead" /\ UNCHANGED <<msg, yielded>>
       ELSE /\ msg' = ButLast(data_recv)
            /\ yielded' = Append(yielded, msg')
            /\ pc' = "filter"
    /\ UNCHANGED <<mainVars, stream, pos, data_recv, df, decoder_msg, packet,
                   clock, shortReads, updates, validated, atClose, readerVars>>

\* Lines 55..58: the downlink format and the decodable test.
FormatFilter ==
    /\ pc = "filter"
    /\ IF ~ParseInt16(Head2(msg)).ok
         THEN pc' = "dead" /\ UNCHANGED df
         ELSE /\ df' = DownlinkFormat(msg)
              /\ pc' = IF Decodable(df') THEN "crc" ELSE "find"
    /\ UNCHANGED <<mainVars, stream, pos, data_recv, msg, decoder_msg, packet,
                   clock, histVars, readerVars>>

\* Lines 60..65: msg_crc and the two tests that follow it.
CrcCheck ==
    /\ pc = "crc"
    /\ validated' = validated \cup {df}
    /\ pc' = IF CrcRejects(msg_crc(msg), df) THEN "find"
             ELSE IF ~Advances(df) THEN "find"
             ELSE "set_msg"
    /\ UNCHANGED <<mainVars, stream, pos, localVars, decoder_msg, packet,
                   clock, yielded, shortReads, updates, atClose, readerVars>>

\* decoder.set_msg(msg)
SetMsg ==
    /\ pc = "set_msg"
    /\ decoder_msg' = msg
    /\ pc' = After("set_msg")
    /\ UNCHANGED <<mainVars, stream, pos, localVars, packet, clock,
                   histVars, readerVars>>

WriteMessage ==
    /\ pc = "w_message"
    /\ packet' = StoreMessage(packet, msg)
    /\ pc' = After("w_message")
    /\ UNCHANGED <<mainVars, stream, pos, localVars, decoder_msg, clock,
                   histVars, readerVars>>

WriteIcao ==
    /\ pc = "w_icao"
    /\ packet' = StoreIcao(packet, decoder_msg)
    /\ pc' = After("w_icao")
    /\ UNCHANGED <<mainVars, stream, pos, localVars, decoder_msg, clock,
                   histVars, readerVars>>

WriteCallsign ==
    /\ pc = "w_callsign"
    /\ packet' = StoreCallsign(packet, decoder_msg)
    /\ pc' = After("w_callsign")
    /\ UNCHANGED <<mainVars, stream, pos, localVars, decoder_msg, clock,
                   histVars, readerVars>>

WriteAltitude ==
    /\ pc = "w_altitude"
    /\ packet' = StoreAltitude(packet, decoder_msg)
    /\ pc' = After("w_altitude")
    /\ UNCHANGED <<mainVars, stream, pos, localVars, decoder_msg, clock,
                   histVars, readerVars>>

\* datetime.now() reads the system's wall clock, which runs forward and can
\* be set back: the reading is any value of the clock's range.
WriteTimestamp ==
    /\ pc = "w_timestamp"
    /\ \E now \in 0..MaxClock :
          /\ clock' = now
          /\ packet' = Stamp(packet, now)
    /\ pc' = After("w_timestamp")
    /\ updates' = Append(updates, [msg |-> msg, packet |-> packet'])
    /\ UNCHANGED <<mainVars, stream, pos, localVars, decoder_msg,
                   yielded, shortReads, validated, atClose, readerVars>>

---------------------------------------------------------------------------
(* The publisher: a request reads the packet's fields one after the other. *)

Fields == <<"message", "icao", "callsign", "altitude", "timestamp">>

ReadField ==
    /\ mainpc = "serving"
    /\ rpc < Len(Fields)
    /\ snap' = [snap EXCEPT ![Fields[rpc + 1]] = packet[Fields[rpc + 1]]]
    /\ rpc' = rpc + 1
    /\ UNCHANGED <<mainVars, stream, pos, pc, localVars, decoder_msg, packet,
                   clock, histVars>>

\* The next request.
ReadAgain ==
    /\ rpc = Len(Fields)
    /\ rpc' = 0
    /\ UNCHANGED <<mainVars, stream, pos, pc, localVars, decoder_msg, packet,
                   clock, histVars, snap>>

---------------------------------------------------------------------------
(* The specification of main() and decoder_daemon(). *)

MainNext == ConnectOk \/ ConnectFail \/ Shutdown

DaemonNext ==
    \/ Find \/ FindErr \/ ScanRetry
    \/ RecvBytes \/ RecvEof \/ RecvRaise
    \/ FrameCheck \/ FormatFilter \/ CrcCheck
    \/ SetMsg \/ WriteMessage \/ WriteIcao \/ WriteCallsign
    \/ WriteAltitude \/ WriteTimestamp

Next == MainNext \/ DaemonNext

Spec == Init /\ [][Next]_vars

\* decoder_daemon on a feed of accepted frames, with a reader of the packet.
NextReader ==
    \/ ConnectOk
    \/ Find \/ FindErr \/ ScanRetry \/ RecvBytes
    \/ FrameCheck \/ FormatFilter \/ CrcCheck
    \/ SetMsg \/ WriteMessage \/ WriteIcao \/ WriteCallsign
    \/ WriteAltitude \/ WriteTimestamp
    \/ ReadField \/ ReadAgain

\* The thread scheduler keeps running decoder_daemon while it has a step.
SpecLive == Init /\ [][Next]_vars /\ WF_vars(DaemonNext)

\* The format filter applied to any header: decoder_daemon holds a RawMessage
\* it has just read, whose first two characters are any two of HeaderChars.
HeaderChars ==
    (48..57) \cup (65..70) \cup (97..102) \cup {32, 43, 45, 71}

\* What follows the header: nothing, zeros, or the digit F throughout.
Tails ==
    { <<>>, [k \in 1..(RecvLen - 3) |-> 48], [k \in 1..(RecvLen - 3) |-> 70] }

FormatInputs == { <<a, b>> \o t : a \in HeaderChars, b \in HeaderChars, t \in Tails }

InitFormat ==
    /\ mainpc = "serving"
    /\ sockOpen = TRUE
    /\ closeCalls = 0
    /\ attempts = 1
    /\ connErr = FALSE
    /\ packetMade = TRUE
    /\ msg \in FormatInputs
    /\ data_recv = msg \o <<SEMI>>
    /\ stream = <<STAR>> \o data_recv
    /\ pos = Len(stream)
    /\ pc = "filter"
    /\ df = 0
    /\ decoder_msg = <<>>
    /\ packet = EmptyPacket
    /\ clock = 0
    /\ yielded = <<msg>>
    /\ shortReads = 0
    /\ rpc = 0
    /\ snap = EmptyPacket
    /\ updates = <<>>
    /\ validated = {}
    /\ atClose = NotClosed

SpecFormat == InitFormat /\ [][FormatFilter]_vars

SpecReader == InitReader /\ [][NextReader]_vars

---------------------------------------------------------------------------
(* Vocabulary of the properties. *)

\* int(msg[:2], 16) raises nothing for m.
ParseOk(m) == ParseInt16(Head2(m)).ok

\* m is a format-17 message that msg_crc accepts.
Accepted(m) == ParseOk(m) /\ DownlinkFormat(m) = 17 /\ ~msg_crc(m)

\* The daemon holds a RawMessage it has not finished with.
Processing == pc \in {"filter", "crc"} \cup UpdateLabels

\* A step that leaves every field of the packet and the decoder's message
\* alone and does not enter the update statements.
Discards ==
    /\ packet' = packet
    /\ decoder_msg' = decoder_msg
    /\ pc' \in {"filter", "crc", "find"}

\* The packet before and after the i-th completed update.
Before(i) == IF i = 1 THEN EmptyPacket ELSE updates[i - 1].packet

AfterUpdate(i) == updates[i].packet

\* The daemon is past packet.message = msg and before the end of the
\* timestamp assignment of the same message.
InUpdate == pc \in {"w_icao", "w_callsign", "w_altitude", "w_timestamp"}

\* The daemon holds an accepted message of which it has written nothing yet.
Pending ==
    /\ pc \in {"filter", "crc", "set_msg", "w_message"}
    /\ Accepted(msg)

\* The daemon holds bytes it has read and not finished with.
InFlight == {"frame", "filter", "crc"} \cup UpdateLabels

\* The text of a well-formed frame.
IsFrameText(m) == Len(m) = 28 /\ AllHex(m)

---------------------------------------------------------------------------
(* C1..C10. *)

\* C1: while the daemon processes a RawMessage whose downlink format is not
\* 17 (20, 21 or any other), no step changes a field of the packet or reaches
\* decoder.set_msg; the update statements are reached only with a format-17
\* message that passes the checksum.
C1_NonFormat17ChangesNothing ==
    [][ /\ (Processing /\ ParseOk(msg) /\ DownlinkFormat(msg) # 17)
             => Discards
        /\ pc' \in UpdateLabels => Accepted(msg')
      ]_vars

\* C1 witness: after one completed update a format-20 or format-21 message
\* went through msg_crc and was dropped, the packet still that of the update.
C1_Witness ==
    /\ pc = "find"
    /\ Len(yielded) = 2
    /\ msg = yielded[2]
    /\ DownlinkFormat(msg) \in {20, 21}
    /\ Len(updates) = 1
    /\ packet = updates[1].packet

\* C2: while the daemon processes a format-17 RawMessage for which msg_crc
\* reports an error, no step changes a field of the packet, and the daemon's
\* next position after the checksum test is the scan for the start sentinel.
C2_BadCrcChangesNothing ==
    [][(Processing /\ ParseOk(msg) /\ DownlinkFormat(msg) = 17 /\ msg_crc(msg))
         => Discards /\ (pc = "crc" /\ pc' # pc => pc' = "find")]_vars

\* C2 witness: after one completed update a format-17 message with a wrong
\* checksum was processed and the daemon is scanning again.
C2_Witness ==
    /\ pc = "find"
    /\ Len(yielded) = 2
    /\ msg = yielded[2]
    /\ DownlinkFormat(msg) = 17
    /\ msg_crc(msg)
    /\ 17 \in validated
    /\ Len(updates) = 1
    /\ packet = updates[1].packet

\* C3 (as claimed): in every completed update, a field whose getter reported
\* a decode failure holds the value it had before the update.
C3_FailedFieldKeepsValue ==
    \A i \in 1..Len(updates) :
        LET m == updates[i].msg
        IN  /\ get_icao(m)[2] => AfterUpdate(i).icao = Before(i).icao
            /\ get_callsign(m)[2]
                 => AfterUpdate(i).callsign = Before(i).callsign
            /\ get_altitude(m)[2]
                 => AfterUpdate(i).altitude = Before(i).altitude

\* C4: whenever no message is being processed, the completed updates are
\* those of the accepted RawMessages, in order; each left in the packet the
\* message's text and, for every getter that succeeded, the getter's value.
C4_AcceptedMessageIsStored ==
    /\ ~Processing =>
         SelectSeq(yielded, Accepted)
           = [i \in 1..Len(updates) |-> updates[i].msg]
    /\ \A i \in 1..Len(updates) :
         LET m == updates[i].msg
             p == AfterUpdate(i)
         IN  /\ p.message = m
             /\ ~get_icao(m)[2] => p.icao = get_icao(m)[1]
             /\ ~get_callsign(m)[2] => p.callsign = get_callsign(m)[1]
             /\ ~get_altitude(m)[2] => p.altitude = get_altitude(m)[1]
    /\ (~Processing /\ updates # <<>>) => packet = AfterUpdate(Len(updates))

\* C4 witness: two accepted messages were processed, the first with all three
\* getters succeeding, and the packet holds the second.
C4_Witness ==
    /\ pc = "find"
    /\ Len(updates) = 2
    /\ updates[1].msg # updates[2].msg
    /\ ~get_icao(updates[1].msg)[2]
    /\ ~get_callsign(updates[1].msg)[2]
    /\ ~get_altitude(updates[1].msg)[2]
    /\ packet.message = updates[2].msg
    /\ packet.icao = get_icao(updates[2].msg)[1]

\* C5 (as claimed): once the daemon has consumed the whole stream, with every
\* recv returning all the bytes there were, the well-formed frames of the
\* stream are the frame texts handed to the format filter, one each, in order.
C5_EveryFrameYieldsOneMessage ==
    ( /\ mainpc = "serving"
      /\ sockOpen
      /\ pc = "find"
      /\ pos = Len(stream)
      /\ shortReads = 0 )
      => SelectSeq(yielded, IsFrameText) = FramesOf(stream)

\* C6: when the window read after a '*' does not end in ';', the daemon hands
\* no RawMessage to the filter, changes no field of the packet, consumes no
\* further byte, and its next position is the scan for the start sentinel,
\* which starts at the byte that follows the window.
C6_UnterminatedWindowDiscarded ==
    [][(pc = "frame" /\ LastSlice(data_recv) # <<SEMI>>)
         => /\ yielded' = yielded
            /\ msg' = msg
            /\ packet' = packet
            /\ decoder_msg' = decoder_msg
            /\ pos' = pos
            /\ data_recv = SubSeq(stream, pos - Len(data_recv) + 1, pos)
            /\ pc' # pc => pc' = "find"]_vars

\* C6 witness: a full window ending in ',' was discarded and the daemon scans
\* again from the byte after it.
C6_Witness ==
    /\ pc = "find"
    /\ Len(data_recv) = RecvLen
    /\ data_recv[RecvLen] = 44
    /\ pos = 1 + RecvLen
    /\ yielded = <<>>
    /\ packet = EmptyPacket

\* C7 (as claimed): a request that has read all five fields, seen when no
\* update is in progress, holds one of the complete packets: the initial one
\* or the one some completed update left.
C7_ReaderSeesCompleteSnapshot ==
    (rpc = Len(Fields) /\ pc \notin UpdateLabels)
      => snap \in {EmptyPacket} \cup {updates[i].packet : i \in 1..Len(updates)}

\* C8 (as claimed): no step decreases packet.timestamp.
C8_TimestampNeverDecreases ==
    [][packet'.timestamp >= packet.timestamp]_vars

\* C8 (amended): packet.timestamp changes only in the last statement of an
\* update; that statement runs when message, icao, callsign and altitude
\* already hold the values of the same message, and stores the wall-clock
\* reading taken then, so the timestamp does not decrease unless that reading
\* is below the previous one.
C8_TimestampIsLastAndFollowsClock ==
    [][ /\ packet'.timestamp # packet.timestamp => pc = "w_timestamp"
        /\ (pc = "w_timestamp" /\ pc' # pc) =>
             /\ pc' = "find"
             /\ packet.message = msg
             /\ packet.icao = get_icao(msg)[1]
             /\ packet.callsign = get_callsign(msg)[1]
             /\ packet.altitude = get_altitude(msg)[1]
             /\ packet'.timestamp = clock'
             /\ clock' >= clock => packet'.timestamp >= packet.timestamp
      ]_vars

\* C8 witness: two updates completed and the second timestamp is the larger.
C8_Witness ==
    /\ Len(updates) = 2
    /\ updates[2].packet.timestamp > updates[1].packet.timestamp
    /\ packet.timestamp = updates[2].packet.timestamp

\* C9: when two successive completed updates are of the same message text,
\* message, icao, callsign and altitude after the second equal those after
\* the first.
C9_RedeliveryIsIdempotent ==
    \A i \in 1..(Len(updates) - 1) :
        updates[i].msg = updates[i + 1].msg =>
            /\ AfterUpdate(i + 1).message = AfterUpdate(i).message
            /\ AfterUpdate(i + 1).icao = AfterUpdate(i).icao
            /\ AfterUpdate(i + 1).callsign = AfterUpdate(i).callsign
            /\ AfterUpdate(i + 1).altitude = AfterUpdate(i).altitude

\* C9 witness: the stream is the same accepted frame twice and both were
\* processed.
C9_Witness ==
    /\ stream = FrameFull \o FrameFull
    /\ pc = "find"
    /\ Len(updates) = 2
    /\ updates[1].msg = updates[2].msg
    /\ packet = AfterUpdate(2)

\* C10 (as claimed): when main has exited on the connect failure, or a
\* shutdown event was handled, the connection is closed.
C10_ClosedOnEveryExit ==
    (mainpc = "exit_fail" \/ closeCalls > 0) => ~sockOpen

---------------------------------------------------------------------------
(* C11..C19. *)

\* C11: connect_tcpserver calls sock.connect() once and never again; when the
\* call fails main exits as a startup failure, and in that execution
\* decoder_daemon is never started and the packet is never created or written.
C11_FailedConnectStartsNothing ==
    /\ attempts <= 1
    /\ mainpc # "connect" => attempts = 1
    /\ connErr =>
          /\ mainpc = "exit_fail"
          /\ pc = "unstarted"
          /\ ~packetMade
          /\ packet = EmptyPacket
          /\ updates = <<>>
          /\ yielded = <<>>
          /\ pos = 0

\* C11 witness: the one attempt failed and main has exited.
C11_Witness == connErr /\ mainpc = "exit_fail" /\ attempts = 1

\* C12: once the shutdown handler has closed the connection, decoder_daemon
\* eventually terminates (its read on the closed connection raises and the
\* thread ends).
C12_LoopEndsAfterShutdown == (~sockOpen) ~> (pc = "dead")

\* C13: decoder_daemon ends only in its read, when the connection is closed
\* or delivers nothing more; no content of a window that ends in ';' (a
\* payload without two hexadecimal digits in front, an empty payload, bytes
\* that are not text) ends it.
C13_NoContentEndsLoop ==
    [][(pc # "dead" /\ pc' = "dead")
         => (pc = "recv" /\ (~sockOpen \/ pos = Len(stream)))]_vars

\* C14: msg_crc is called only for RawMessages of downlink format 17; it is
\* never called for a message of another format, 20 and 21 included.
C14_CrcCalledOnlyForFormat17 == validated \subseteq {17}

\* C15: every RawMessage handed to the format filter, and every message an
\* update stores in packet.message, is exactly 28 characters long, also when
\* a recv call returns fewer bytes than were asked for.
C15_RawMessageHas28Characters ==
    /\ \A i \in 1..Len(yielded) : Len(yielded[i]) = RecvLen - 1
    /\ \A i \in 1..Len(updates) : Len(updates[i].packet.message) = RecvLen - 1

\* C16: when socket_find reports an error, decoder_daemon does not end, reads
\* no payload and changes no field of the packet; its next step is the next
\* scan, and after a failed scan another scan can always fail and be retried.
C16_ScanErrorIsRetried ==
    [][ /\ (pc = "find" /\ pc' = "retry") =>
              /\ packet' = packet
              /\ data_recv' = data_recv /\ msg' = msg
              /\ decoder_msg' = decoder_msg
        /\ pc = "retry" =>
              /\ pc' \in {"retry", "find"}
              /\ packet' = packet /\ pos' = pos
              /\ data_recv' = data_recv /\ msg' = msg
              /\ decoder_msg' = decoder_msg
              /\ ENABLED ScanRetry
        /\ pc = "find" => ENABLED FindErr
      ]_vars

\* C16 witness: a scan failed after a completed update, the packet still
\* that of the update.
C16_Witness ==
    /\ pc = "retry"
    /\ Len(updates) = 1
    /\ packet = updates[1].packet
    /\ packet.message # <<>>

\* C17: for a payload whose first two characters are hexadecimal digits, the
\* downlink format is the byte they denote shifted right by three bits, a
\* value in 0..31; the message is decodable exactly when that byte is in
\* 0x88..0x8F, 0xA0..0xA7 or 0xA8..0xAF; and every payload with the same two
\* characters is classified the same.
C17_FormatIsHeaderShiftedBy3 ==
    (/\ pc # "filter"
     /\ Len(msg) >= 2 /\ IsHexDigit(msg[1]) /\ IsHexDigit(msg[2])) =>
        LET byte == 16 * HexVal(msg[1]) + HexVal(msg[2])
        IN  /\ byte \in 0..255
            /\ pc \in {"crc", "find"}
            /\ df \in 0..31
            /\ df * 8 <= byte /\ byte < (df + 1) * 8
            /\ pc = "crc" <=> byte \in (136..143) \cup (160..167) \cup (168..175)
            /\ \A m \in FormatInputs :
                  Head2(m) = Head2(msg) =>
                     /\ DownlinkFormat(m) = df
                     /\ Decodable(DownlinkFormat(m)) <=> pc = "crc"

\* C17 witness: the filter has classified a 28-character payload starting
\* with AF as format 21, decodable.
C17_Witness ==
    /\ pc = "crc"
    /\ df = 21
    /\ Len(msg) = RecvLen - 1
    /\ Head2(msg) = <<65, 70>>

C19_NothingNewAfterClose ==
    closeCalls > 0 =>
        LET n == Len(updates) IN
        /\ pos = atClose.pos
        /\ pc \in InFlight => (atClose.pc \in InFlight /\ data_recv = atClose.data_recv)
        /\ n <= atClose.updates + 1
        /\ n = atClose.updates + 1 =>
              /\ atClose.pc \in InFlight
              /\ updates[n].msg = ButLast(atClose.data_recv)
        /\ n = atClose.updates /\ ~InUpdate => packet = atClose.packet
        /\ n = atClose.updates + 1 /\ ~InUpdate => packet = updates[n].packet

\* C19 witness: the connection was closed while the daemon held a message it
\* had read; its update completed after the close and the next scan failed.
C19_Witness ==
    /\ closeCalls > 0
    /\ atClose.pc = "frame"
    /\ Len(updates) = atClose.updates + 1
    /\ packet # atClose.packet
    /\ pc = "retry"

====
